---------------------------- MODULE Spec2Model ----------------------------
(***************************************************************************)
(* A model of api-amqp (nodejs): the client portal (ClientEndpoint.fetch   *)
(* and ClientEndpoint.critical_section), the connection's correlator       *)
(* (APIConnection._new_cid / _cancel_cid / the 'message' handler) and the  *)
(* server-side mutex queue (MutexInstance), connected by the deliveries,   *)
(* dispositions and replies the transport carries between them.            *)
(*                                                                         *)
(* Transport conventions (rhea, as the source uses it):                    *)
(*   - sender.send(m) creates a local delivery and puts m on the link; a   *)
(*     link delivers in order;                                             *)
(*   - delivery.accept() on a received delivery emits an 'accepted'        *)
(*     disposition to the sender (rcv_settle_mode 1: not settled);         *)
(*   - delivery.update(true) settles locally and, unless the peer has      *)
(*     settled already, emits a settled disposition to the peer;           *)
(*   - an assignment delivery.settled = true writes the local field only;  *)
(*   - replies travel on another link than the dispositions, so a reply    *)
(*     and the disposition of its request arrive in either order.          *)
(***************************************************************************)
EXTENDS Integers, Sequences, FiniteSets, TLC

\* ----------------------------------------------------------------- bounds
\* Number of calls (fetch or critical_section) one connection issues.
MaxCalls == 3
\* Number of calls the client-side specification issues.
MaxClientCalls == 2
\* Largest credit a sender link is granted.
MaxCredit == 2
\* Number of deliveries the network settles on behalf of a lost client or link.
MaxLoss == 1
\* Number of elements a path text splits into at its slashes.
MaxElements == 2
\* Number of elements of the paths the dispatch specification requests.
\* Number of route() calls on the server endpoint.
MaxRoutes == 2
\* Number of handlers registered on the nodes of the server endpoint.
MaxHandlers == 2
\* Response objects in a behaviour.
MaxResponses == 2
\* Characters in an endpoint address.
MaxAddressLen == 2

\* ------------------------------------------------------------- constants
Cids == 1..MaxCalls
Endpoints == {"e1", "e2"}
LINK_CLASS_FETCH == "FETCH"
LINK_CLASS_MUTEX == "MUTEX"
LinkClasses == {LINK_CLASS_FETCH, LINK_CLASS_MUTEX}
MutexNames == {"counter", "other"}
STATE_ACCEPTED == "accepted"
NoEndpoint == "none"

\* A path text is modelled by path.split('/'): the sequence of its elements,
\* where a leading, trailing or doubled slash gives a blank element ('' splits
\* into one blank element).  Inherited is a name every JavaScript object
\* inherits a property for.
Blank == ""
Inherited == "constructor"
Names == {"a", "b"}
Elements == Names \cup {Blank, Inherited}
PathTexts == UNION { [1..n -> Elements] : n \in 1..MaxElements }
\* application_properties.path is absent
NoPathText == << >>
\* The places of the path tree: the child names from the root to a Path.
Positions == UNION { [1..n -> Names] : n \in 0..MaxElements }
\* The Node objects route() creates, in the order of the calls.
NodeIds == 1..MaxRoutes
\* The keys of Node.handlers
Verbs == {"get", "put", "post", "delete", "watch"}
\* The values of application_properties.op the requests carry.
Ops == {"GET", "get", "PATCH", "acquire"}

VARIABLES
    \* APIConnection
    next_cid,          \* APIConnection.next_cid
    reply_to,          \* APIConnection.reply_to is known
    conn_in_flight,    \* APIConnection.in_flight: cid -> endpoint (or NoEndpoint)
    closed,            \* APIConnection.close() was called
    \* ClientEndpoint
    ep_in_flight,      \* ClientEndpoint.in_flight: endpoint -> set of cids with a handler
    outgoing,          \* ClientEndpoint.outgoing: endpoint -> link class -> queue of cids
    credit,            \* sender.credit: endpoint -> link class -> credit
    \* one record per call, indexed by the cid the call was given
    call,              \* kind, endpoint, mutex name of the call
    timer,             \* the call's timeout timer
    promise,           \* the promise fetch / critical_section returned
    inner,             \* progress of the critical section function
    hookst,            \* closure variables request_delivery and inner_completed
    cdel,              \* the client's delivery of the request
    \* transport
    wire,              \* requests in transit: endpoint -> link class -> queue of cids
    replies,           \* replies in transit to the reply receiver
    disp_s2c,          \* dispositions in transit to the client
    disp_c2s,          \* settlements in transit to the server
    \* server
    queue,             \* MutexInstance.queue per mutex name
    sdel,              \* the server's delivery of each request
    counter,           \* test.js: the counter the lock test increments
    path_tree,         \* ServerEndpoint.path_tree: place -> Absent, NoNode or a node
    nodes,             \* the Node objects: handlers per verb, _mutex
    served,            \* the last request the server dispatched, and what that did
    responses,         \* the Response objects handed to handlers
    registry,          \* APIConnection.server_endpoints and client_endpoints
    \* history, read by the properties only
    hist

vars == << next_cid, reply_to, conn_in_flight, closed, ep_in_flight, outgoing,
           credit, call, timer, promise, inner, hookst, cdel, wire, replies,
           disp_s2c, disp_c2s, queue, sdel, counter, path_tree, nodes, served,
           responses, registry, hist >>

connVars   == << next_cid, reply_to, conn_in_flight, closed >>
routeVars  == << path_tree, nodes, served >>
apiVars    == << responses, registry >>
serverVars == << queue, sdel, counter, routeVars, apiVars >>

\* ---------------------------------------------------------------- helpers
Min(a, b) == IF a < b THEN a ELSE b

SeqToSet(s) == { s[i] : i \in 1..Len(s) }

\* Mutant: the n last elements, not the n first.
PrefixFromTail(s, n) == SubSeq(s, Len(s) - n + 1, Len(s))

Prefix(s, n) == SubSeq(s, 1, n)

Drop(s, n) == SubSeq(s, n + 1, Len(s))

IsPrefix(s, t) == Len(s) <= Len(t) /\ Prefix(t, Len(s)) = s

\* What a promise holds before it resolves, and what a rejection carries.
NoValue == [status |-> 0, body |-> 0]

NoCall == [kind |-> "none", ep |-> NoEndpoint, mutex |-> "none"]

NoDelivery == [sent |-> FALSE, settled |-> FALSE, remote_settled |-> FALSE]

NoServerDelivery ==
    [recv |-> FALSE, accepted |-> FALSE, settled |-> FALSE,
     remote_settled |-> FALSE, hook |-> FALSE, timer |-> "none"]

\* Values of a place of the path tree: no Path object there; a Path whose
\* node is undefined.
Absent == -1
NoNode == 0
\* The outcome of a lookup that throws.
Throws == -1

NoNodeObject == [created |-> FALSE, handlers |-> [v \in Verbs |-> << >>],
                 mutex |-> FALSE]

\* A Response as its constructor leaves it; NoStatus and NoBody are undefined.
NoStatus == 0
NoBody == "undefined"
NewResponse ==
    [created |-> FALSE, sent |-> FALSE, status |-> NoStatus, body |-> NoBody,
     emitted |-> << >>, error |-> "none"]

\* Endpoint addresses: texts of "/" and one other character.
Addresses == UNION { [1..n -> {"/", "x"}] : n \in 0..MaxAddressLen }

\* A connection on which no endpoint was made.
NoEndpoints ==
    [server_endpoints |-> {}, client_endpoints |-> {},
     last |-> [class |-> "none", address |-> << >>, threw |-> FALSE]]

NoServed == [cid |-> 0, path |-> NoPathText, op |-> "none", node |-> NoNode,
             mutex_name |-> "none",
             sent |-> << >>, state |-> "none", settled |-> FALSE,
             invoked |-> 0, threw |-> FALSE]

Init ==
    /\ next_cid = 1
    /\ reply_to = FALSE
    /\ conn_in_flight = [c \in Cids |-> NoEndpoint]
    /\ closed = FALSE
    /\ ep_in_flight = [e \in Endpoints |-> {}]
    /\ outgoing = [e \in Endpoints |-> [l \in LinkClasses |-> << >>]]
    /\ credit = [e \in Endpoints |-> [l \in LinkClasses |-> 0]]
    /\ call = [c \in Cids |-> NoCall]
    /\ timer = [c \in Cids |-> "none"]
    /\ promise = [c \in Cids |-> [state |-> "none", value |-> NoValue]]
    /\ inner = [c \in Cids |-> [pc |-> "idle", value |-> 0]]
    /\ hookst = [c \in Cids |-> [request_delivery |-> FALSE, inner_completed |-> FALSE]]
    /\ cdel = [c \in Cids |-> NoDelivery]
    /\ wire = [e \in Endpoints |-> [l \in LinkClasses |-> << >>]]
    /\ replies = {}
    /\ disp_s2c = {}
    /\ disp_c2s = {}
    /\ queue = [m \in MutexNames |-> << >>]
    /\ sdel = [c \in Cids |-> NoServerDelivery]
    /\ counter = 0
    /\ path_tree = [pos \in Positions |-> IF pos = << >> THEN NoNode ELSE Absent]
    /\ nodes = [n \in NodeIds |-> NoNodeObject]
    /\ served = NoServed
    /\ responses = [i \in 1..MaxResponses |-> NewResponse]
    /\ registry = NoEndpoints
    /\ hist = [cids |-> << >>, arrived |-> [m \in MutexNames |-> << >>],
               granted |-> [m \in MutexNames |-> << >>],
               acquisitions |-> << >>,
               settle_sent |-> [c \in Cids |-> 0],
               cancels |-> [c \in Cids |-> 0],
               invoked |-> [c \in Cids |-> 0],
               reply_of |-> [c \in Cids |-> NoValue],
               abandoned |-> {},
               isolated |-> {},
               routes |-> {},
               routed |-> << >>,
               lost |-> 0]


\* ------------------------------------------------------------ correlator
\* Mutant: next_cid is not advanced.
NextCidAfterStuck(n) == n

\* APIConnection._new_cid: the value next_cid takes after handing out n.
NextCidAfter(n) == n + 1

\* APIConnection._new_cid: the table after registering dispatch object e for cid.
NewCid(tab, cid, e) == [tab EXCEPT ![cid] = e]

\* Mutant: _cancel_cid leaves the connection's entry in place.
CancelCidKept(tab, cid) == tab

\* APIConnection._cancel_cid
CancelCid(tab, cid) == [tab EXCEPT ![cid] = NoEndpoint]

\* The 'message' handler's lookup of the reply's destination: this.in_flight[cid].
Destination(tab, cid) == tab[cid]

\* Mutant: the endpoint invokes the oldest handler it holds, whatever the cid.
HandlerOldest(tab, e, cid) ==
    IF tab[e] # {} THEN CHOOSE x \in tab[e] : \A y \in tab[e] : x <= y ELSE 0

\* ClientEndpoint._dispatch's lookup: the handler the endpoint holds for cid
\* (0 when it holds none).
Handler(tab, e, cid) == IF cid \in tab[e] THEN cid ELSE 0

\* A promise settles once: resolve and reject on a settled promise do nothing.
Settle(p, st, v) == IF p.state = "pending" THEN [state |-> st, value |-> v] ELSE p

\* ----------------------------------------------------- credit-gated send
\* Mutant: a drain sends the whole queue, whatever the credit.
DrainCountAll(q, cr, rt) == IF ~rt THEN 0 ELSE Len(q)

\* ClientEndpoint._on_sendable: how many queued messages one drain sends.
DrainCount(q, cr, rt) == IF ~rt THEN 0 ELSE Min(cr, Len(q))

\* Mutant: one queue per endpoint in effect; the MUTEX class is drained only
\* when no fetch is queued on the endpoint.
OnSendableBehindFetch(which, out, cr, rt) ==
    LET n(e, l) == IF <<e, l>> \in which
                      /\ (l = LINK_CLASS_FETCH \/ out[e][LINK_CLASS_FETCH] = << >>)
                   THEN DrainCount(out[e][l], cr[e][l], rt) ELSE 0
        sent == UNION { SeqToSet(Prefix(out[e][l], n(e, l))) :
                        e \in Endpoints, l \in LinkClasses }
    IN  /\ outgoing' = [e \in Endpoints |-> [l \in LinkClasses |->
                            Drop(out[e][l], n(e, l))]]
        /\ credit' = [e \in Endpoints |-> [l \in LinkClasses |->
                            cr[e][l] - n(e, l)]]
        /\ wire' = [e \in Endpoints |-> [l \in LinkClasses |->
                            wire[e][l] \o Prefix(out[e][l], n(e, l))]]
        /\ cdel' = [c \in Cids |-> IF c \in sent
                                   THEN [cdel[c] EXCEPT !.sent = TRUE]
                                   ELSE cdel[c]]

\* ClientEndpoint._on_sendable on every (endpoint, link class) pair of `which`,
\* starting from the queues `out`, with reply address known or not (rt).
OnSendable(which, out, cr, rt) ==
    LET n(e, l) == IF <<e, l>> \in which
                   THEN DrainCount(out[e][l], cr[e][l], rt) ELSE 0
        sent == UNION { SeqToSet(Prefix(out[e][l], n(e, l))) :
                        e \in Endpoints, l \in LinkClasses }
    IN  /\ outgoing' = [e \in Endpoints |-> [l \in LinkClasses |->
                            Drop(out[e][l], n(e, l))]]
        /\ credit' = [e \in Endpoints |-> [l \in LinkClasses |->
                            cr[e][l] - n(e, l)]]
        /\ wire' = [e \in Endpoints |-> [l \in LinkClasses |->
                            wire[e][l] \o Prefix(out[e][l], n(e, l))]]
        /\ cdel' = [c \in Cids |-> IF c \in sent
                                   THEN [cdel[c] EXCEPT !.sent = TRUE]
                                   ELSE cdel[c]]

\* ------------------------------------------------------ ClientEndpoint
\* The acquire cid of a critical_section on endpoint e, when the call's own
\* _on_sendable transmits it while fetches are queued on e without credit
\* ({} otherwise).
SentPastStalledFetch(e, cid) ==
    IF /\ outgoing[e][LINK_CLASS_FETCH] # << >>
       /\ credit[e][LINK_CLASS_FETCH] = 0
       /\ DrainCount(Append(outgoing[e][LINK_CLASS_MUTEX], cid),
                     credit[e][LINK_CLASS_MUTEX], reply_to)
            = Len(outgoing[e][LINK_CLASS_MUTEX]) + 1
    THEN {cid} ELSE {}

\* ClientEndpoint.fetch(path, args) on endpoint e.
Fetch(e) ==
    /\ next_cid <= MaxCalls
    /\ ~closed
    /\ LET cid == next_cid IN
        /\ next_cid' = NextCidAfter(next_cid)
        /\ conn_in_flight' = NewCid(conn_in_flight, cid, e)
        /\ ep_in_flight' = [ep_in_flight EXCEPT ![e] = @ \cup {cid}]
        /\ call' = [call EXCEPT ![cid] = [kind |-> "fetch", ep |-> e, mutex |-> "none"]]
        /\ timer' = [timer EXCEPT ![cid] = "armed"]
        /\ promise' = [promise EXCEPT ![cid] = [state |-> "pending", value |-> NoValue]]
        /\ hist' = [hist EXCEPT !.cids = Append(@, cid)]
        /\ OnSendable({<<e, LINK_CLASS_FETCH>>},
                      [outgoing EXCEPT ![e][LINK_CLASS_FETCH] = Append(@, cid)],
                      credit, reply_to)
    /\ UNCHANGED << reply_to, closed, inner, hookst, replies, disp_s2c, disp_c2s,
                    serverVars >>

\* ClientEndpoint.critical_section(path, mutex_name, inner, on_cancel, args) on
\* endpoint e for mutex m; timed: args.timeout > 0.
CriticalSection(e, m, timed) ==
    /\ next_cid <= MaxCalls
    /\ ~closed
    /\ LET cid == next_cid IN
        /\ timer' = [timer EXCEPT ![cid] = IF timed THEN "armed" ELSE "none"]
        /\ next_cid' = NextCidAfter(next_cid)
        /\ conn_in_flight' = NewCid(conn_in_flight, cid, e)
        /\ ep_in_flight' = [ep_in_flight EXCEPT ![e] = @ \cup {cid}]
        /\ call' = [call EXCEPT ![cid] = [kind |-> "cs", ep |-> e, mutex |-> m]]
        /\ promise' = [promise EXCEPT ![cid] = [state |-> "pending", value |-> NoValue]]
        /\ hist' = [hist EXCEPT !.cids = Append(@, cid),
                                 !.isolated = @ \cup SentPastStalledFetch(e, cid)]
        /\ OnSendable({<<e, LINK_CLASS_MUTEX>>},
                      [outgoing EXCEPT ![e][LINK_CLASS_MUTEX] = Append(@, cid)],
                      credit, reply_to)
    /\ UNCHANGED << reply_to, closed, inner, hookst, replies, disp_s2c, disp_c2s,
                    serverVars >>

\* Mutant: the timer callback rejects and removes nothing.
TimeoutRejectOnly(c) ==
    /\ timer[c] = "armed"
    /\ timer' = [timer EXCEPT ![c] = "fired"]
    /\ promise' = [promise EXCEPT ![c] = Settle(@, "timeout", NoValue)]
    /\ UNCHANGED << connVars, ep_in_flight, outgoing, credit, call, inner, hookst,
                    cdel, wire, replies, disp_s2c, disp_c2s, serverVars, hist >>

\* Mutant: the timer callback also takes the request out of its queue.
TimeoutDequeue(c) ==
    /\ timer[c] = "armed"
    /\ timer' = [timer EXCEPT ![c] = "fired"]
    /\ ep_in_flight' = [ep_in_flight EXCEPT ![call[c].ep] = @ \ {c}]
    /\ conn_in_flight' = CancelCid(conn_in_flight, c)
    /\ promise' = [promise EXCEPT ![c] = Settle(@, "timeout", NoValue)]
    /\ outgoing' = [e \in Endpoints |-> [l \in LinkClasses |->
                        SelectSeq(outgoing[e][l], LAMBDA x : x # c)]]
    /\ hist' = [hist EXCEPT !.abandoned =
                    IF call[c].kind = "cs" /\ ~sdel[c].accepted THEN @ \cup {c} ELSE @]
    /\ UNCHANGED << next_cid, reply_to, closed, credit, call, inner,
                    hookst, cdel, wire, replies, disp_s2c, disp_c2s, serverVars >>

\* The timeout timer of a fetch or of a critical_section fires.
Timeout(c) ==
    /\ timer[c] = "armed"
    /\ timer' = [timer EXCEPT ![c] = "fired"]
    /\ ep_in_flight' = [ep_in_flight EXCEPT ![call[c].ep] = @ \ {c}]
    /\ conn_in_flight' = CancelCid(conn_in_flight, c)
    /\ promise' = [promise EXCEPT ![c] = Settle(@, "timeout", NoValue)]
    /\ hist' = [hist EXCEPT !.abandoned =
                    IF call[c].kind = "cs" /\ ~sdel[c].accepted THEN @ \cup {c} ELSE @]
    /\ UNCHANGED << next_cid, reply_to, closed, outgoing, credit, call, inner,
                    hookst, cdel, wire, replies, disp_s2c, disp_c2s, serverVars >>

\* ----------------------------------------------------- APIConnection events
\* Mutant: the reply address is recorded and no endpoint is told.
ReceiverOpenNoDrain ==
    /\ ~reply_to
    /\ ~closed
    /\ reply_to' = TRUE
    /\ UNCHANGED << next_cid, conn_in_flight, closed, ep_in_flight, outgoing,
                    credit, call, timer, promise, inner, hookst, cdel, wire,
                    replies, disp_s2c, disp_c2s, serverVars, hist >>

\* 'receiver_open' of the reply receiver: the dynamic reply address is known;
\* every client endpoint drains both link classes (_on_reply_addr_ready).
ReceiverOpen ==
    /\ ~reply_to
    /\ ~closed
    /\ reply_to' = TRUE
    /\ OnSendable(Endpoints \X LinkClasses, outgoing, credit, TRUE)
    /\ UNCHANGED << next_cid, conn_in_flight, closed, ep_in_flight, call, timer,
                    promise, inner, hookst, replies, disp_s2c, disp_c2s,
                    serverVars, hist >>

\* 'sendable': the peer granted the sender of (e, l) credit up to k.
Sendable(e, l, k) ==
    /\ ~closed
    /\ credit[e][l] < k
    /\ OnSendable({<<e, l>>}, outgoing, [credit EXCEPT ![e][l] = k], reply_to)
    /\ UNCHANGED << connVars, ep_in_flight, call, timer, promise, inner, hookst,
                    replies, disp_s2c, disp_c2s, serverVars, hist >>

\* APIConnection.close()
Close ==
    /\ ~closed
    /\ closed' = TRUE
    /\ UNCHANGED << next_cid, reply_to, conn_in_flight, ep_in_flight, outgoing,
                    credit, call, timer, promise, inner, hookst, cdel, wire,
                    replies, disp_s2c, disp_c2s, serverVars, hist >>

\* ------------------------------------------------- replies at the client
\* The completion fetch registered for call h (client.js: this.in_flight[cid]),
\* invoked with reply r: the new timer and promise of h.
FetchCompletion(h, r) ==
    /\ timer' = [timer EXCEPT ![h] = IF @ = "armed" THEN "cleared" ELSE @]
    /\ promise' = [promise EXCEPT ![h] =
                      Settle(@, "resolved", [status |-> r.status, body |-> r.body])]
    /\ UNCHANGED inner

\* Mutant: the completion leaves the timer armed.
MutexCompletionKeepTimer(h, r) ==
    /\ UNCHANGED timer
    /\ IF r.status = 200
       THEN /\ inner' = [inner EXCEPT ![h] = [pc |-> "get", value |-> 0]]
            /\ UNCHANGED promise
       ELSE /\ promise' = [promise EXCEPT ![h] =
                              Settle(@, "error", [status |-> r.status, body |-> 0])]
            /\ UNCHANGED inner

\* The completion critical_section registered for call h, invoked with reply r,
\* up to the first suspension of inner (the GET the lock test's inner issues).
MutexCompletion(h, r) ==
    /\ timer' = [timer EXCEPT ![h] = IF @ = "armed" THEN "cleared" ELSE @]
    /\ IF r.status = 200
       THEN /\ inner' = [inner EXCEPT ![h] = [pc |-> "get", value |-> 0]]
            /\ UNCHANGED promise
       ELSE /\ promise' = [promise EXCEPT ![h] =
                              Settle(@, "error", [status |-> r.status, body |-> 0])]
            /\ UNCHANGED inner

\* 'message' on the reply receiver (APIConnection._setup_handlers), then
\* ClientEndpoint._dispatch and the completion it finds.
ReplyMessage(r) ==
    /\ r \in replies
    /\ ~closed
    /\ replies' = replies \ {r}
    /\ LET dest == Destination(conn_in_flight, r.cid) IN
       IF dest = NoEndpoint
       THEN \* throws 'Reply message for unknown correlation_id': rejected, settled
            UNCHANGED << conn_in_flight, ep_in_flight, timer, promise, inner, hist >>
       ELSE LET h == Handler(ep_in_flight, dest, r.cid) IN
            IF h = 0
            THEN UNCHANGED << conn_in_flight, ep_in_flight, timer, promise, inner,
                              hist >>
            ELSE /\ ep_in_flight' = [ep_in_flight EXCEPT ![dest] = @ \ {r.cid}]
                 /\ conn_in_flight' = CancelCid(conn_in_flight, r.cid)
                 /\ hist' = [hist EXCEPT !.invoked[h] = @ + 1]
                 /\ IF call[h].kind = "fetch"
                    THEN FetchCompletion(h, r)
                    ELSE MutexCompletion(h, r)
    /\ UNCHANGED << next_cid, reply_to, closed, outgoing, credit, call, hookst,
                    cdel, wire, disp_s2c, disp_c2s, serverVars >>

\* ------------------------------------------- the critical section function
\* test.js CountClient.increment, run as inner by safe_increment.  Its two
\* fetches act on the server's counter when the server's handler runs them.
\* GET /variables/counter is handled; inner computes value + 1 and issues the PUT.
InnerGet(c) ==
    /\ inner[c].pc = "get"
    /\ ~closed
    /\ inner' = [inner EXCEPT ![c] = [pc |-> "put", value |-> counter + 1]]
    /\ UNCHANGED << connVars, ep_in_flight, outgoing, credit, call, timer, promise,
                    hookst, cdel, wire, replies, disp_s2c, disp_c2s, serverVars,
                    hist >>

\* PUT /variables/counter is handled: counter = req.body.
InnerPut(c) ==
    /\ inner[c].pc = "put"
    /\ ~closed
    /\ counter' = inner[c].value
    /\ inner' = [inner EXCEPT ![c].pc = "ret"]
    /\ UNCHANGED << connVars, ep_in_flight, outgoing, credit, call, timer, promise,
                    hookst, cdel, wire, replies, disp_s2c, disp_c2s, queue, sdel,
                    routeVars, apiVars, hist >>

\* request_delivery.update(true) by the client: whether a settlement is emitted.
SettleEmitted(d) == ~d.remote_settled

\* inner returned: the rest of the completion of critical_section
\* (inner_completed = true; settle the request delivery if known; resolve).
InnerDone(c) ==
    /\ inner[c].pc = "ret"
    /\ ~closed
    /\ inner' = [inner EXCEPT ![c].pc = "done"]
    /\ hookst' = [hookst EXCEPT ![c].inner_completed = TRUE]
    /\ IF hookst[c].request_delivery
       THEN /\ cdel' = [cdel EXCEPT ![c].settled = TRUE]
            /\ IF SettleEmitted(cdel[c])
               THEN /\ disp_c2s' = disp_c2s \cup {c}
                    /\ hist' = [hist EXCEPT !.settle_sent[c] = @ + 1]
               ELSE UNCHANGED << disp_c2s, hist >>
       ELSE UNCHANGED << cdel, disp_c2s, hist >>
    /\ promise' = [promise EXCEPT ![c] =
                      Settle(@, "resolved", [status |-> 200, body |-> inner[c].value])]
    /\ UNCHANGED << connVars, ep_in_flight, outgoing, credit, call, timer, wire,
                    replies, disp_s2c, serverVars >>

\* ------------------------------------------- dispositions at the client
\* Mutant: the hook only stores the accepted delivery.
HookNoDrop(st, state) ==
    IF state = STATE_ACCEPTED
    THEN [st EXCEPT !.request_delivery = TRUE,
                    !.settled = (st.settled \/ st.inner_completed)]
    ELSE st

\* Mutant: the drop branch is taken for every delivery the peer settled,
\* locally settled or not.
HookDropSettled(st, state) ==
    LET s1 == IF state = STATE_ACCEPTED
              THEN [st EXCEPT !.request_delivery = TRUE,
                              !.settled = (st.settled \/ st.inner_completed)]
              ELSE st
    IN  IF s1.remote_settled
        THEN [s1 EXCEPT !.settled = TRUE, !.cancels = @ + 1,
                        !.promise = Settle(@, "dropped", NoValue)]
        ELSE s1

\* The disposition hook critical_section attaches to its request (on_update),
\* on the closure and delivery state st, for the event's state.
Hook(st, state) ==
    LET s1 == IF state = STATE_ACCEPTED
              THEN [st EXCEPT !.request_delivery = TRUE,
                              !.settled = (st.settled \/ st.inner_completed)]
              ELSE st
    IN  IF s1.remote_settled /\ ~s1.settled
        THEN [s1 EXCEPT !.settled = TRUE, !.cancels = @ + 1,
                        !.promise = Settle(@, "dropped", NoValue)]
        ELSE s1

\* The senders are opened with the default options (autosettle): when the peer
\* settles a delivery, the transport sets delivery.settled before the
\* connection's 'settled' handler runs.
AutoSettle(st) == [st EXCEPT !.settled = TRUE]

\* A disposition d of the request's delivery arrives at the client: the
\* 'accepted' handler (when d carries that state), then the 'settled' handler
\* (when d settles), each calling delivery.__on_update if the delivery has one.
ClientDisposition(d) ==
    /\ d \in disp_s2c
    /\ ~closed
    /\ disp_s2c' = disp_s2c \ {d}
    /\ LET c  == d.cid
           st0 == [request_delivery |-> hookst[c].request_delivery,
                   inner_completed |-> hookst[c].inner_completed,
                   settled |-> cdel[c].settled,
                   remote_settled |-> cdel[c].remote_settled \/ d.settled,
                   cancels |-> hist.cancels[c],
                   promise |-> promise[c]]
           st1 == IF d.state # "none" THEN Hook(st0, d.state) ELSE st0
           st2 == IF d.settled THEN Hook(AutoSettle(st1), "settled") ELSE st1
           st  == IF call[c].kind = "cs" THEN st2
                  ELSE IF d.settled THEN AutoSettle(st0) ELSE st0
       IN  IF cdel[c].remote_settled
           THEN UNCHANGED << hookst, cdel, promise, hist >>
           ELSE /\ hookst' = [hookst EXCEPT ![c].request_delivery = st.request_delivery]
                /\ cdel' = [cdel EXCEPT ![c].settled = st.settled,
                                        ![c].remote_settled = st.remote_settled]
                /\ promise' = [promise EXCEPT ![c] = st.promise]
                /\ hist' = [hist EXCEPT !.cancels[c] = st.cancels]
    /\ UNCHANGED << connVars, ep_in_flight, outgoing, credit, call, timer, inner,
                    wire, replies, disp_c2s, serverVars >>

\* The network (a router that lost the server, for one) settles the delivery
\* of the acquire c before the client did, with the outcome released.
NetworkSettles(c) ==
    /\ call[c].kind = "cs"
    /\ cdel[c].sent
    /\ ~cdel[c].remote_settled
    /\ ~closed
    /\ \A d \in disp_s2c : d.cid = c => ~d.settled
    /\ disp_s2c' = disp_s2c \cup {[cid |-> c, state |-> "released", settled |-> TRUE]}
    /\ UNCHANGED << connVars, ep_in_flight, outgoing, credit, call, timer, promise,
                    inner, hookst, cdel, wire, replies, disp_c2s, serverVars, hist >>

\* ------------------------------------------------ MutexInstance (server)
\* MutexInstance._dispatch: this.queue.push(request)
Enqueue(q, c) == Append(q, c)

\* Mutant: grant_lock takes the last request of the queue.
GrantedRequestLast(q) == q[Len(q)]

\* MutexInstance.grant_lock: const request = this.queue[0]
GrantedRequest(q) == q[1]

\* Mutant: every arrival is granted, whatever the queue holds.
ArrivalGrantAlways(q) == q[Len(q)]

\* MutexInstance._dispatch, after the push: the request grant_lock is called
\* for (queue.length == 1), or 0 when the arrival waits.
ArrivalGrant(q) == IF Len(q) = 1 THEN GrantedRequest(q) ELSE 0

\* The release hook grant_lock installs: remote_settled && !settled
ReleaseCondition(d) == d.remote_settled /\ ~d.settled

\* The release hook: this.queue.shift()
Shift(q) == Tail(q)

\* The release hook, after the pop: the request grant_lock is called for
\* (queue.length > 0), or 0 when the queue is empty.
ReleaseGrant(q) == IF Len(q) > 0 THEN GrantedRequest(q) ELSE 0

\* MutexInstance._send_response: acquisition_id : 'abcde'
AcquisitionId == "abcde"

\* A reply the server endpoint itself sends carries no acquisition_id.
NoAcquisitionId == "undefined"

\* MutexInstance.grant_lock of mutex m for request c, starting from deliveries
\* sd: install the release hook on the delivery, accept it, send the 200 reply.
GrantLock(c, m, sd, h0) ==
    /\ sdel' = [sd EXCEPT ![c].hook = TRUE, ![c].accepted = TRUE]
    /\ disp_s2c' = IF sd[c].remote_settled THEN disp_s2c
                   ELSE disp_s2c \cup {[cid |-> c, state |-> STATE_ACCEPTED,
                                        settled |-> FALSE]}
    /\ replies' = replies \cup {[cid |-> c, status |-> 200, body |-> 0,
                                  acquisition_id |-> AcquisitionId]}
    /\ hist' = [h0 EXCEPT !.granted[m] = Append(@, c),
                          !.acquisitions = Append(@, AcquisitionId)]

\* critical_section composes its request without wait_time.
NoWaitTime == 0

\* MutexInstance._dispatch: the timer of the request pushed behind queue q,
\* (this.queue.length > 0 && ap.wait_time) ? setTimeout(...) : undefined
RequestTimer(q, wait_time) ==
    IF Len(q) > 0 /\ wait_time # NoWaitTime THEN "armed" ELSE "none"

\* 'message' on the MUTEX receiver of the server endpoint e serves, for a
\* request whose application_properties carry wait_time (NoWaitTime: none):
\* ServerEndpoint._dispatch, Node._dispatch (op acquire), Mutex._dispatch,
\* MutexInstance._dispatch.
ServerAcquire(e, wait_time) ==
    /\ wire[e][LINK_CLASS_MUTEX] # << >>
    /\ LET c  == Head(wire[e][LINK_CLASS_MUTEX])
           m  == call[c].mutex
           q1 == Enqueue(queue[m], c)
           sd == [sdel EXCEPT ![c].recv = TRUE,
                              ![c].timer = RequestTimer(queue[m], wait_time)]
           h0 == [hist EXCEPT !.arrived[m] = Append(@, c)]
       IN  /\ wire' = [wire EXCEPT ![e][LINK_CLASS_MUTEX] = Tail(@)]
           /\ queue' = [queue EXCEPT ![m] = q1]
           /\ IF ArrivalGrant(q1) # 0
              THEN GrantLock(ArrivalGrant(q1), m, sd, h0)
              ELSE /\ sdel' = sd
                   /\ hist' = h0
                   /\ UNCHANGED << disp_s2c, replies >>
    /\ UNCHANGED << connVars, ep_in_flight, outgoing, credit, call, timer, promise,
                    inner, hookst, cdel, disp_c2s, counter, routeVars, apiVars >>

\* The wait timer of request c fires.  Its callback is empty: the request
\* stays where it is, nothing is sent and nothing is settled.
WaitTimerFires(c) ==
    /\ sdel[c].timer = "armed"
    /\ sdel' = [sdel EXCEPT ![c].timer = "fired"]
    /\ UNCHANGED << connVars, ep_in_flight, outgoing, credit, call, timer, promise,
                    inner, hookst, cdel, wire, replies, disp_s2c, disp_c2s, queue,
                    counter, routeVars, apiVars, hist >>

\* 'settled' on the server for the delivery of request c (the peer settled it):
\* delivery.__on_update(delivery), which is the release hook once c was granted.
ServerSettled(c, h0) ==
    LET m  == call[c].mutex
        sd == [sdel EXCEPT ![c].remote_settled = TRUE]
    IN  IF sd[c].hook /\ ReleaseCondition(sd[c])
        THEN LET sd1 == [sd EXCEPT ![c].settled = TRUE]
                 q1  == Shift(queue[m])
             IN  /\ queue' = [queue EXCEPT ![m] = q1]
                 /\ IF ReleaseGrant(q1) # 0
                    THEN GrantLock(ReleaseGrant(q1), m, sd1, h0)
                    ELSE /\ sdel' = sd1
                         /\ hist' = h0
                         /\ UNCHANGED << disp_s2c, replies >>
        ELSE /\ sdel' = sd
             /\ hist' = h0
             /\ UNCHANGED << queue, disp_s2c, replies >>

\* The client's settlement of request c arrives at the server.  A delivery the
\* peer has settled already raises no second 'settled' event.
SettlementArrives(c) ==
    /\ c \in disp_c2s
    /\ disp_c2s' = disp_c2s \ {c}
    /\ IF sdel[c].remote_settled
       THEN UNCHANGED << queue, sdel, disp_s2c, replies, hist >>
       ELSE ServerSettled(c, hist)
    /\ UNCHANGED << connVars, ep_in_flight, outgoing, credit, call, timer, promise,
                    inner, hookst, cdel, wire, counter, routeVars, apiVars >>

\* The client or its link went away: the network settles the delivery of
\* request c, which the server had received and the peer had not settled.
PeerLoss(c) ==
    /\ hist.lost < MaxLoss
    /\ sdel[c].recv
    /\ ~sdel[c].remote_settled
    /\ ServerSettled(c, [hist EXCEPT !.lost = @ + 1])
    /\ UNCHANGED << connVars, ep_in_flight, outgoing, credit, call, timer, promise,
                    inner, hookst, cdel, wire, disp_c2s, counter, routeVars, apiVars >>

\* ------------------------------------------------- Path (the path tree)
\* Path.get_child(name) on the Path at place pos: this.children[name] is the
\* Path inserted under that name ("own"), the property the children object
\* inherits under that name ("foreign"), or undefined ("none").
GetChild(t, pos, name) ==
    IF name = Inherited THEN "foreign"
    ELSE IF t[Append(pos, name)] # Absent THEN "own" ELSE "none"

\* Mutant: insert makes a new Path for the child whether or not there is one,
\* so what was below that child is gone.
RECURSIVE InsertFresh(_, _, _, _)
InsertFresh(t, pos, n, els) ==
    IF els = << >> THEN [tree |-> [t EXCEPT ![pos] = n], threw |-> FALSE]
    ELSE IF Head(els) = Blank THEN InsertFresh(t, pos, n, Tail(els))
    ELSE IF GetChild(t, pos, Head(els)) = "foreign"
         THEN [tree |-> t, threw |-> TRUE]
    ELSE InsertFresh([p \in DOMAIN t |->
                         IF p = Append(pos, Head(els)) THEN NoNode
                         ELSE IF IsPrefix(Append(pos, Head(els)), p) THEN Absent
                         ELSE t[p]],
                     Append(pos, Head(els)), n, Tail(els))

\* Path.insert(node, elements) on the Path at place pos: the tree after the
\* insertion and whether it threw (calling insert on a foreign object).
RECURSIVE Insert(_, _, _, _)
Insert(t, pos, n, els) ==
    IF els = << >> THEN [tree |-> [t EXCEPT ![pos] = n], threw |-> FALSE]
    ELSE IF Head(els) = Blank THEN Insert(t, pos, n, Tail(els))
    ELSE IF GetChild(t, pos, Head(els)) = "foreign"
         THEN [tree |-> t, threw |-> TRUE]
    ELSE Insert([t EXCEPT ![Append(pos, Head(els))] =
                        IF @ = Absent THEN NoNode ELSE @],
                Append(pos, Head(els)), n, Tail(els))

\* ServerEndpoint._find_path(tree, elements) from the Path at place pos: the
\* Path found, undefined, or a throw (a foreign object was reached: get_child,
\* or get_node in _dispatch, is not a function of it).
RECURSIVE FindPath(_, _, _)
FindPath(t, pos, els) ==
    IF els = << >> THEN [kind |-> "path", pos |-> pos]
    ELSE IF Head(els) = Blank THEN FindPath(t, pos, Tail(els))
    ELSE IF GetChild(t, pos, Head(els)) = "own"
         THEN FindPath(t, Append(pos, Head(els)), Tail(els))
    ELSE IF GetChild(t, pos, Head(els)) = "foreign"
         THEN [kind |-> "throws", pos |-> pos]
    ELSE [kind |-> "undefined", pos |-> pos]

\* ServerEndpoint._dispatch, up to `const node`: the node the request's path
\* text resolves to, NoNode, or Throws.  An absent or empty path text is falsy.
Resolve(t, els) ==
    IF els = NoPathText \/ els = << Blank >> THEN NoNode
    ELSE LET found == FindPath(t, << >>, els) IN
         IF found.kind = "throws" THEN Throws
         ELSE IF found.kind = "undefined" THEN NoNode
         ELSE t[found.pos]

\* --------------------------------------- ServerEndpoint and Node (server)
\* application_properties.op.toLowerCase()
ToLowerCase(op) ==
    CASE op = "GET" -> "get"
      [] op = "PATCH" -> "patch"
      [] OTHER -> op

\* A reply message given to anonSender.send.
Reply(status, description, body) ==
    [status |-> status, description |-> description, body |-> body]

\* What a dispatch that ran to its end without a reply or a disposition did.
NoOutcome(n) ==
    [node |-> n, sent |-> << >>, state |-> "none", settled |-> FALSE,
     invoked |-> 0, threw |-> FALSE, enqueue |-> FALSE]

\* Mutant: the exception is logged and the delivery is left alone.
CaughtIgnored(out) == [out EXCEPT !.threw = TRUE]

\* The catch of the 'message' handler: delivery.reject(); settled = true.
Caught(out) == [out EXCEPT !.state = "rejected", !.settled = TRUE, !.threw = TRUE]

\* Node._dispatch: the loop over this.handlers[opcode].  A handler either
\* sends a 200 response ("send") or throws ("throw"); a throw ends the loop.
RECURSIVE RunHandlers(_)
RunHandlers(hs) ==
    IF hs = << >> THEN [invoked |-> 0, sent |-> << >>, threw |-> FALSE]
    ELSE IF Head(hs) = "throw" THEN [invoked |-> 1, sent |-> << >>, threw |-> TRUE]
    ELSE LET r == RunHandlers(Tail(hs)) IN
         [invoked |-> r.invoked + 1,
          sent |-> << Reply(200, "", "handled") >> \o r.sent,
          threw |-> r.threw]

\* Node._dispatch: the 400 response when no handler handled the request.
NotPermitted(r) ==
    IF r.invoked = 0
    THEN << Reply(400, "Not Permitted", "Method not permitted for this resource") >>
    ELSE << >>

\* Node._dispatch of node object nd (node n) for op.
NodeDispatch(nd, n, op) ==
    LET opcode == ToLowerCase(op) IN
    IF opcode = "acquire"
    THEN IF nd.mutex
         THEN [NoOutcome(n) EXCEPT !.enqueue = TRUE]
         ELSE Caught(NoOutcome(n))            \* this._mutex is undefined
    ELSE IF opcode \notin Verbs
    THEN Caught(NoOutcome(n))                 \* this.handlers[opcode] is undefined
    ELSE LET r == RunHandlers(nd.handlers[opcode]) IN
         IF r.threw
         THEN Caught([NoOutcome(n) EXCEPT !.sent = r.sent, !.invoked = r.invoked])
         ELSE [NoOutcome(n) EXCEPT !.sent = r.sent \o NotPermitted(r),
                                   !.invoked = r.invoked,
                                   !.state = STATE_ACCEPTED, !.settled = TRUE]

\* ServerEndpoint._dispatch: the 404 response, accept and settle.
NotFound(n) ==
    [NoOutcome(n) EXCEPT !.sent = << Reply(404, "Not Found", "No resource found at path") >>,
                         !.state = STATE_ACCEPTED, !.settled = TRUE]

\* ServerEndpoint._dispatch under the 'message' handler's try and catch, for a
\* request with path text els and op, on path tree t and node objects nd.
Dispatch(t, nd, els, op) ==
    LET n == Resolve(t, els) IN
    IF n = Throws THEN Caught(NoOutcome(Throws))
    ELSE IF n = NoNode THEN NotFound(NoNode)
    ELSE NodeDispatch(nd[n], n, op)

\* The nodes route() has created so far.
Created == { n \in NodeIds : nodes[n].created }

\* The handlers registered so far.
RegisteredHandlers ==
    { <<n, v, i>> \in NodeIds \X Verbs \X (1..MaxHandlers) :
          i <= Len(nodes[n].handlers[v]) }

\* ServerEndpoint.route(path): a new Node, inserted at the path's elements.
Route(els) ==
    /\ Cardinality(Created) < MaxRoutes
    /\ LET n == Cardinality(Created) + 1
           r == Insert(path_tree, << >>, n, els)
       IN  /\ nodes' = [nodes EXCEPT ![n].created = TRUE]
           /\ path_tree' = r.tree
           /\ hist' = [hist EXCEPT !.routes = IF r.threw THEN @ ELSE @ \cup {els},
                                  !.routed = Append(@, els)]
    /\ UNCHANGED << connVars, ep_in_flight, outgoing, credit, call, timer, promise,
                    inner, hookst, cdel, wire, replies, disp_s2c, disp_c2s,
                    queue, sdel, counter, served, apiVars >>

\* Node.get(handler) / Node.put(handler) / ... on node n: push on handlers[v].
NodeHandler(n, v, h) ==
    /\ nodes[n].created
    /\ Cardinality(RegisteredHandlers) < MaxHandlers
    /\ nodes' = [nodes EXCEPT ![n].handlers[v] = Append(@, h)]
    /\ UNCHANGED << connVars, ep_in_flight, outgoing, credit, call, timer, promise,
                    inner, hookst, cdel, wire, replies, disp_s2c, disp_c2s,
                    queue, sdel, counter, path_tree, served, apiVars, hist >>

\* Node.mutex() on node n
NodeMutex(n) ==
    /\ nodes[n].created
    /\ ~nodes[n].mutex
    /\ nodes' = [nodes EXCEPT ![n].mutex = TRUE]
    /\ UNCHANGED << connVars, ep_in_flight, outgoing, credit, call, timer, promise,
                    inner, hookst, cdel, wire, replies, disp_s2c, disp_c2s,
                    queue, sdel, counter, path_tree, served, apiVars, hist >>

\* Mutex._dispatch: the names this.instances, a plain {}, yields a
\* MutexInstance for (one it holds or one it creates); for a name the table
\* inherits a property of, the property is taken for the instance.
HasInstance(m) == m # Inherited

\* 'message' on a receiver of the server endpoint, for the request c with path
\* text els, op and mutex name m: ServerEndpoint._dispatch, Node._dispatch and,
\* for an acquire on a node with a mutex set, MutexInstance._dispatch.
ServerDispatch(c, els, op, m) ==
    /\ ~sdel[c].recv
    /\ LET d   == Dispatch(path_tree, nodes, els, op)
           \* this.instances[mutexName] is a property the table inherits: no
           \* MutexInstance is created and its _dispatch is undefined
           out == IF d.enqueue /\ ~HasInstance(m)
                  THEN Caught(NoOutcome(d.node)) ELSE d
           req == [NoServed EXCEPT !.cid = c, !.path = els, !.op = op,
                                   !.mutex_name = IF ToLowerCase(op) = "acquire"
                                                  THEN m ELSE "none"]
       IN IF out.enqueue
          THEN LET q1 == Enqueue(queue[m], c)
                   sd == [sdel EXCEPT ![c].recv = TRUE]
                   h0 == [hist EXCEPT !.arrived[m] = Append(@, c)]
                   granted == ArrivalGrant(q1) # 0
               IN  /\ queue' = [queue EXCEPT ![m] = q1]
                   /\ IF granted
                      THEN GrantLock(ArrivalGrant(q1), m, sd, h0)
                      ELSE /\ sdel' = sd
                           /\ hist' = h0
                           /\ UNCHANGED << disp_s2c, replies >>
                   /\ served' = [req EXCEPT
                         !.node = out.node,
                         !.sent = IF granted THEN << Reply(200, "Ok", "") >> ELSE << >>,
                         !.state = IF granted THEN STATE_ACCEPTED ELSE "none"]
          ELSE /\ served' = [req EXCEPT !.node = out.node, !.sent = out.sent,
                                        !.state = out.state, !.settled = out.settled,
                                        !.invoked = out.invoked, !.threw = out.threw]
               /\ UNCHANGED << queue, sdel, disp_s2c, replies, hist >>
    /\ UNCHANGED << connVars, ep_in_flight, outgoing, credit, call, timer, promise,
                    inner, hookst, cdel, wire, disp_c2s, counter, path_tree, nodes,
                    apiVars >>

\* --------------------------------------------------------------- Response
\* Response.status(code)
ResponseStatus(r, code) ==
    IF r.sent THEN [r EXCEPT !.error = "Setting status on an already sent response"]
    ELSE [r EXCEPT !.status = code, !.error = "none"]

\* Mutant: send does not look at this.sent.
ResponseSendAgain(r, body) ==
    [r EXCEPT !.body = body,
              !.emitted = Append(@, [status |-> r.status, body |-> body]),
              !.sent = TRUE, !.error = "none"]

\* Response.send(body)
ResponseSend(r, body) ==
    IF r.sent THEN [r EXCEPT !.error = "Sending on an already sent response"]
    ELSE [r EXCEPT !.body = body,
                   !.emitted = Append(@, [status |-> r.status, body |-> body]),
                   !.sent = TRUE, !.error = "none"]

\* Response.end()
ResponseEnd(r) == ResponseSend(r, NoBody)

\* The variables no Response or endpoint call touches.
protocolVars ==
    << connVars, ep_in_flight, outgoing, credit, call, timer, promise, inner,
       hookst, cdel, wire, replies, disp_s2c, disp_c2s, queue, sdel, counter,
       routeVars, hist >>

\* new Response(message, sender), as Node._dispatch makes one per handler call
Construct(i) ==
    /\ ~responses[i].created
    /\ responses' = [responses EXCEPT ![i].created = TRUE]
    /\ UNCHANGED << protocolVars, registry >>

\* A handler calls res.status(code), res.send(body) or res.end().
Status(i, code) ==
    /\ responses[i].created
    /\ responses' = [responses EXCEPT ![i] = ResponseStatus(@, code)]
    /\ UNCHANGED << protocolVars, registry >>

Send(i, body) ==
    /\ responses[i].created
    /\ Len(responses[i].emitted) <= 1
    /\ responses' = [responses EXCEPT ![i] = ResponseSend(@, body)]
    /\ UNCHANGED << protocolVars, registry >>

End(i) ==
    /\ responses[i].created
    /\ Len(responses[i].emitted) <= 1
    /\ responses' = [responses EXCEPT ![i] = ResponseEnd(@)]
    /\ UNCHANGED << protocolVars, registry >>

\* ------------------------------------------- APIConnection's endpoints
\* Mutant: the address is used as it was given.
NormaliseNone(a) == a

\* const address = _address[0] == '/' ? _address : '/' + _address
Normalise(a) == IF a # << >> /\ a[1] = "/" THEN a ELSE << "/" >> \o a

\* APIConnection.server_endpoint(_address)
server_endpoint(a) ==
    /\ registry' =
         IF Normalise(a) \notin registry.server_endpoints
         THEN [registry EXCEPT !.server_endpoints = @ \cup {Normalise(a)},
                               !.last = [class |-> "server", address |-> a, threw |-> FALSE]]
         ELSE [registry EXCEPT !.last = [class |-> "server", address |-> a, threw |-> TRUE]]
    /\ UNCHANGED << protocolVars, responses >>

\* APIConnection.client_endpoint(_address)
client_endpoint(a) ==
    /\ registry' =
         IF Normalise(a) \notin registry.client_endpoints
         THEN [registry EXCEPT !.client_endpoints = @ \cup {Normalise(a)},
                               !.last = [class |-> "client", address |-> a, threw |-> FALSE]]
         ELSE [registry EXCEPT !.last = [class |-> "client", address |-> a, threw |-> TRUE]]
    /\ UNCHANGED << protocolVars, responses >>

\* ------------------------------------------------------- specifications
\* The endpoint the lock test's clients share.
LockEndpoint == "e1"

\* Normal operation of the mutex protocol: no timer fires, nothing is lost.
NextNormal ==
    \/ \E m \in MutexNames : CriticalSection(LockEndpoint, m, TRUE)
    \/ ReceiverOpen
    \/ \E k \in 1..MaxCredit : Sendable(LockEndpoint, LINK_CLASS_MUTEX, k)
    \/ ServerAcquire(LockEndpoint, NoWaitTime)
    \/ \E r \in replies : ReplyMessage(r)
    \/ \E d \in disp_s2c : ClientDisposition(d)
    \/ \E c \in Cids : InnerGet(c)
    \/ \E c \in Cids : InnerPut(c)
    \/ \E c \in Cids : InnerDone(c)
    \/ \E c \in Cids : SettlementArrives(c)

\* Normal operation and client timers.
NextTimed ==
    \/ NextNormal
    \/ \E c \in Cids : Timeout(c)

\* Normal operation and loss of the client or of its link.
NextLossy ==
    \/ NextNormal
    \/ \E c \in Cids : PeerLoss(c)

\* Client timers and loss of the client or of its link.
Next ==
    \/ NextNormal
    \/ \E c \in Cids : Timeout(c)
    \/ \E c \in Cids : PeerLoss(c)

SpecNormal == Init /\ [][NextNormal]_vars

\* Values of wait_time (milliseconds) a requester sets on its acquire.
WaitTimes == {1}

\* Normal operation with requesters that set wait_time on their acquires.
NextWait ==
    \/ NextNormal
    \/ \E wait_time \in WaitTimes : ServerAcquire(LockEndpoint, wait_time)
    \/ \E c \in Cids : WaitTimerFires(c)

SpecWait == Init /\ [][NextWait]_vars

SpecTimed == Init /\ [][NextTimed]_vars

SpecLossy == Init /\ [][NextLossy]_vars

Spec == Init /\ [][Next]_vars

\* ------------------------------------------ the client against any server
\* Statuses a server may answer with.
Statuses == {200, 404}

\* The body of the answer to request c: it tells the answers apart.
BodyFor(c) == c * 10

\* Some server takes the next request of link (e, l) and answers it with a
\* reply of status st; an acquire it also accepts, and settles unless it
\* grants it (status 200).
ServerAnswers(e, l, st) ==
    /\ wire[e][l] # << >>
    /\ ~closed
    /\ LET c == Head(wire[e][l]) IN
        /\ wire' = [wire EXCEPT ![e][l] = Tail(@)]
        /\ replies' = replies \cup {[cid |-> c, status |-> st, body |-> BodyFor(c),
                                      acquisition_id |->
                                          IF l = LINK_CLASS_MUTEX /\ st = 200
                                          THEN AcquisitionId ELSE NoAcquisitionId]}
        /\ disp_s2c' = IF l = LINK_CLASS_MUTEX
                       THEN disp_s2c \cup {[cid |-> c, state |-> STATE_ACCEPTED,
                                            settled |-> (st # 200)]}
                       ELSE disp_s2c
        /\ hist' = [hist EXCEPT !.reply_of[c] = [status |-> st, body |-> BodyFor(c)]]
    /\ UNCHANGED << connVars, ep_in_flight, outgoing, credit, call, timer, promise,
                    inner, hookst, cdel, disp_c2s, serverVars >>

\* The mutex the client-side specification acquires.
ClientMutex == "counter"

NextClient ==
    \/ \E e \in Endpoints : next_cid <= MaxClientCalls /\ Fetch(e)
    \/ \E e \in Endpoints, timed \in BOOLEAN :
          next_cid <= MaxClientCalls /\ CriticalSection(e, ClientMutex, timed)
    \/ ReceiverOpen
    \/ \E e \in Endpoints, l \in LinkClasses, k \in 1..MaxCredit :
          \* the peer grants credit to a link that has a request waiting
          outgoing[e][l] # << >> /\ Sendable(e, l, k)
    \/ \E e \in Endpoints, l \in LinkClasses, st \in Statuses :
          ServerAnswers(e, l, st)
    \/ \E r \in replies : ReplyMessage(r)
    \/ \E d \in disp_s2c : ClientDisposition(d)
    \/ \E c \in Cids : InnerGet(c)
    \/ \E c \in Cids : InnerPut(c)
    \/ \E c \in Cids : InnerDone(c)
    \/ \E c \in Cids : Timeout(c)
    \/ Close

SpecClient == Init /\ [][NextClient]_vars

\* The client side, and a network that may settle an acquire on its own.
NextDrop ==
    \/ NextClient
    \/ \E c \in Cids : NetworkSettles(c)

SpecDrop == Init /\ [][NextDrop]_vars

\* ---------------------------------------------------- the client's outbox
\* Calls on both endpoints and both link classes, the reply receiver opening
\* and credit arriving, in any order; nothing consumes what was transmitted,
\* so wire holds every request in the order sender.send was given it.
NextOutbox ==
    \/ \E e \in Endpoints : Fetch(e)
    \/ \E e \in Endpoints : CriticalSection(e, ClientMutex, FALSE)
    \/ ReceiverOpen
    \/ \E e \in Endpoints, l \in LinkClasses, k \in 1..MaxCredit : Sendable(e, l, k)

SpecOutbox == Init /\ [][NextOutbox]_vars

\* ---------------------------------------------------- handlers' Responses
ResponseStatuses == {200, 404}
ResponseBodies == {"Sub2", "Another Sub2"}

\* Handlers use their Responses in any way and any order.
NextResponse ==
    \/ \E i \in 1..MaxResponses : Construct(i)
    \/ \E i \in 1..MaxResponses, code \in ResponseStatuses : Status(i, code)
    \/ \E i \in 1..MaxResponses, body \in ResponseBodies : Send(i, body)
    \/ \E i \in 1..MaxResponses : End(i)

SpecResponse == Init /\ [][NextResponse]_vars

\* --------------------------------------------- endpoints of a connection
\* An application makes server and client endpoints on any addresses.
NextEndpoints ==
    \/ \E a \in Addresses : server_endpoint(a)
    \/ \E a \in Addresses : client_endpoint(a)

SpecEndpoints == Init /\ [][NextEndpoints]_vars

\* ------------------------------------------------- the server's dispatch
\* The next request the server receives: requests are numbered as they enter
\* a mutex queue.
FreshCid(c) ==
    /\ c <= MaxClientCalls
    /\ ~sdel[c].recv
    /\ \A x \in Cids : x < c => sdel[x].recv

\* The routes of the dispatch specification: a resource and one below it.
TestRoutes == { << Blank, "a" >>, << Blank, "a", "b" >> }

\* The path texts the dispatch specification requests.
RequestPathTexts ==
    {NoPathText, << Blank >>, << Blank, Blank >>}
        \cup { << Blank, x >> : x \in Names \cup {Inherited} }
        \cup { << Blank, "a", x >> : x \in Names \cup {Inherited} }

\* The mutex names the acquires of the mutex-set specification carry.
RequestMutexNames == MutexNames \cup {Inherited}

\* The verbs the server of the dispatch specification registers handlers for.
HandledVerbs == {"get"}

\* Handlers a server registers: one that responds, one that throws.
HandlerKinds == {"send", "throw"}

\* A server registers routes, handlers and mutex sets, and receives requests
\* of any path and op, in any order.
NextServer ==
    \/ \E els \in TestRoutes : Route(els)
    \/ \E n \in NodeIds, v \in HandledVerbs, h \in HandlerKinds : NodeHandler(n, v, h)
    \/ \E n \in NodeIds : NodeMutex(n)
    \/ \E c \in Cids, els \in RequestPathTexts, op \in Ops :
          FreshCid(c) /\ ServerDispatch(c, els, op, ClientMutex)

SpecServer == Init /\ [][NextServer]_vars

\* A server registers routes and mutex sets and receives acquires of any of
\* the mutex names for the registered paths.
NextMutexSet ==
    \/ \E els \in TestRoutes : Route(els)
    \/ \E n \in NodeIds : NodeMutex(n)
    \/ \E c \in Cids, els \in TestRoutes, m \in RequestMutexNames :
          FreshCid(c) /\ ServerDispatch(c, els, "acquire", m)

SpecMutexSet == Init /\ [][NextMutexSet]_vars

\* Routes of any path text are registered and requests of any path text are
\* looked up.
NextRoute ==
    \/ \E els \in PathTexts : Route(els)
    \/ \E c \in Cids, els \in PathTexts :
          FreshCid(c) /\ ServerDispatch(c, els, "GET", ClientMutex)

SpecRoute == Init /\ [][NextRoute]_vars

\* ------------------------------------------------------------ properties
IssuedCalls == { c \in Cids : call[c].kind # "none" }

\* A request of mutex m is granted: grant_lock accepted its delivery and sent
\* its 200 reply, and its entry is still in the queue of m.
IsGranted(m, c) ==
    /\ c \in SeqToSet(queue[m])
    /\ sdel[c].accepted
    /\ c \in SeqToSet(hist.granted[m])

\* inner is executing for call c.
InnerRunning(c) == inner[c].pc \in {"get", "put", "ret"}

\* Nothing is in transit and no critical section is executing: the state
\* changes only if a new call is issued or credit is granted.
Quiescent ==
    /\ reply_to
    /\ \A e \in Endpoints, l \in LinkClasses :
          outgoing[e][l] = << >> /\ wire[e][l] = << >>
    /\ replies = {} /\ disp_s2c = {} /\ disp_c2s = {}
    /\ \A c \in Cids : ~InnerRunning(c)

\* C1: for every mutex name, at most one acquire request is in the granted
\* state (accepted, 200 reply sent, entry not yet popped).
C1_MutexExclusion ==
    \A m \in MutexNames :
        Cardinality({ c \in Cids : IsGranted(m, c) }) <= 1

\* A second request of a mutex holds the grant while a third one waits.
C1_Witness ==
    \E m \in MutexNames :
        /\ Len(queue[m]) >= 2
        /\ Len(hist.granted[m]) >= 2
        /\ IsGranted(m, queue[m][1])

\* C2: the 200 grant replies of a mutex are sent in the order in which
\* MutexInstance._dispatch processed the requests, none being skipped.
C2_FifoGrant ==
    \A m \in MutexNames : IsPrefix(hist.granted[m], hist.arrived[m])

\* Three requests of one mutex were granted, the later two after waiting
\* together in the queue.
C2_Witness ==
    \E m \in MutexNames :
        /\ Len(hist.granted[m]) = 3
        /\ Len(queue[m]) = 1

\* Calls of critical_section on mutex m.
CallsOn(m) == { c \in IssuedCalls : call[c].kind = "cs" /\ call[c].mutex = m }

Resolved(m) == { c \in CallsOn(m) : promise[c].state = "resolved" }

\* C3: clients that run the lock test's inner under one mutex name never
\* execute inner at the same time; the values they return are pairwise
\* distinct and, once all N have returned, are 1..N with the counter at N.
C3_SafeIncrement ==
    \A m \in MutexNames :
        /\ \A c1, c2 \in CallsOn(m) :
              (c1 # c2) => ~(InnerRunning(c1) /\ InnerRunning(c2))
        /\ (CallsOn(m) = IssuedCalls) =>
              /\ \A c1, c2 \in Resolved(m) :
                    (c1 # c2) => promise[c1].value.body # promise[c2].value.body
              /\ \A c \in Resolved(m) :
                    promise[c].value.body \in 1..Cardinality(IssuedCalls)
              /\ (Resolved(m) = IssuedCalls) =>
                    /\ { promise[c].value.body : c \in Resolved(m) }
                          = 1..Cardinality(IssuedCalls)
                    /\ counter = Cardinality(IssuedCalls)

\* All N calls ran on one mutex and returned.
C3_Witness ==
    /\ Cardinality(IssuedCalls) = MaxCalls
    /\ \E m \in MutexNames : Resolved(m) = IssuedCalls

\* C4: once inner has completed and the acquire delivery is known to the
\* client (in either order), the client has signalled its settlement to the
\* server exactly once; a settlement the server has seen popped the entry; and
\* the head of a non-empty queue is always granted (pop and next grant are one
\* step).
C4_ReleaseClosure ==
    /\ \A c \in Cids :
          (hookst[c].inner_completed /\ hookst[c].request_delivery)
             => hist.settle_sent[c] = 1
    /\ \A c \in Cids, m \in MutexNames :
          (hist.settle_sent[c] = 1 /\ c \notin disp_c2s)
             => c \notin SeqToSet(queue[m])
    /\ \A m \in MutexNames :
          queue[m] # << >> => IsGranted(m, queue[m][1])

\* C5: in normal operation, when nothing is left in transit every call of
\* critical_section has resolved with the value inner returned and no mutex
\* queue holds an entry.
C5_Progress ==
    Quiescent =>
        /\ \A c \in IssuedCalls :
              /\ promise[c].state = "resolved"
              /\ promise[c].value.body = inner[c].value
        /\ \A m \in MutexNames : queue[m] = << >>

\* C6: when nothing is left in transit, the acquire of a call that timed out
\* before the server granted it is not at the head of its queue: the grant
\* that followed was settled by the client and released.
C6_AbandonedWaiterBenign ==
    Quiescent =>
        \A m \in MutexNames :
            queue[m] # << >> => queue[m][1] \notin hist.abandoned

\* C7: when nothing is left in transit, no acquire whose delivery the peer or
\* the network has settled holds a mutex (is the head of its queue).
C7_ReleaseByLoss ==
    Quiescent =>
        \A m \in MutexNames :
            queue[m] # << >> => ~sdel[queue[m][1]].remote_settled

\* C8: after close() no call is pending and the correlator is empty.
C8_CloseFailsPending ==
    closed =>
        /\ \A c \in IssuedCalls : promise[c].state # "pending"
        /\ \A c \in Cids : conn_in_flight[c] = NoEndpoint

\* C9: a reply with correlation_id c invokes the completion of the call that
\* was given cid c and removes its entries, changes no other call, and a fetch
\* resolves with the status and body of that reply.
C9_CorrelatedDelivery ==
    [][\A r \in replies :
          (replies' = replies \ {r}) =>
              LET c == r.cid
                  registered == /\ conn_in_flight[c] # NoEndpoint
                                /\ c \in ep_in_flight[conn_in_flight[c]]
              IN  /\ \A x \in Cids \ {c} :
                        /\ hist'.invoked[x] = hist.invoked[x]
                        /\ promise'[x] = promise[x]
                        /\ inner'[x] = inner[x]
                        /\ timer'[x] = timer[x]
                  /\ registered =>
                        /\ conn_in_flight[c] = call[c].ep
                        /\ hist'.invoked[c] = hist.invoked[c] + 1
                        /\ conn_in_flight'[c] = NoEndpoint
                        /\ \A e \in Endpoints : c \notin ep_in_flight'[e]
                  /\ (registered /\ call[c].kind = "fetch") =>
                        promise'[c] = [state |-> "resolved",
                                       value |-> [status |-> r.status,
                                                  body |-> r.body]]
                  /\ ~registered =>
                        UNCHANGED << hist, promise, inner, timer >>
      ]_vars

\* A fetch of the second endpoint resolved with the answer to its own request
\* while a call of the first endpoint was outstanding.
C9_Witness ==
    \E c \in IssuedCalls :
        /\ call[c].kind = "fetch" /\ call[c].ep = "e2"
        /\ promise[c].state = "resolved"
        /\ promise[c].value = hist.reply_of[c]
        /\ \E x \in IssuedCalls : call[x].ep = "e1" /\ conn_in_flight[x] = "e1"

\* C10: the cids handed out on a connection are strictly increasing, hence
\* pairwise distinct.
C10_CidsIncrease ==
    \A i, j \in 1..Len(hist.cids) : i < j => hist.cids[i] < hist.cids[j]

\* Two endpoints of the connection were each handed a cid.
C10_Witness ==
    /\ Len(hist.cids) >= 2
    /\ \E c1, c2 \in IssuedCalls : call[c1].ep # call[c2].ep

\* C11: once a fetch has timed out, a reply bearing its cid that arrives later
\* invokes no completion, changes no call's promise, timer or inner, and leaves
\* both correlator tables as they were.
C11_TimeoutCancellation ==
    [][\A r \in replies :
          (replies' = replies \ {r} /\ call[r.cid].kind = "fetch"
             /\ promise[r.cid].state = "timeout")
          => UNCHANGED << conn_in_flight, ep_in_flight, promise, timer, inner, hist >>]_vars

\* A fetch timed out, the server answered it, and the late reply was consumed.
C11_Witness ==
    \E c \in Cids :
        /\ call[c].kind = "fetch"
        /\ promise[c].state = "timeout"
        /\ hist.reply_of[c] # NoValue
        /\ \A r \in replies : r.cid # c
        /\ \E x \in Cids : x # c /\ promise[x].state = "pending"

\* APIConnection.get_stats().in_flight_count
in_flight_count == Cardinality({ c \in Cids : conn_in_flight[c] # NoEndpoint })

\* C12: whenever no promise of the connection is pending (each call has
\* resolved or rejected), in_flight_count is 0.
C12_NoInFlightLeak ==
    (IssuedCalls # {} /\ \A c \in IssuedCalls : promise[c].state # "pending")
    => in_flight_count = 0

\* The link class a call of kind k uses.
LinkClassOf(k) == IF k = "fetch" THEN LINK_CLASS_FETCH ELSE LINK_CLASS_MUTEX

\* The requests enqueued on link class l of endpoint e among calls 1..n, in
\* the order of their enqueue (a call pushes its request when it takes its cid).
RECURSIVE EnqueuedUpTo(_, _, _)
EnqueuedUpTo(e, l, n) ==
    IF n = 0 THEN << >>
    ELSE LET rest == EnqueuedUpTo(e, l, n - 1) IN
         IF call[n].kind # "none" /\ call[n].ep = e /\ LinkClassOf(call[n].kind) = l
         THEN Append(rest, n) ELSE rest

Enqueued(e, l) == EnqueuedUpTo(e, l, MaxCalls)

IsSuffix(s, t) == Len(s) <= Len(t) /\ Drop(t, Len(t) - Len(s)) = s

\* C13: on every link class of every client endpoint, the requests handed to
\* sender.send followed by those still queued are the requests enqueued, in
\* the order of their enqueue: the one enqueued first is transmitted first.
C13_PerClassFifo ==
    \A e \in Endpoints, l \in LinkClasses :
        IsSuffix(wire[e][l] \o outgoing[e][l], Enqueued(e, l))

\* Three requests were enqueued on one link class; two were transmitted and
\* the third is still queued behind them.
C13_Witness ==
    \E e \in Endpoints, l \in LinkClasses :
        Len(wire[e][l]) = 2 /\ Len(outgoing[e][l]) = 1

\* C14: a critical_section issued on an endpoint while the reply address is
\* known and the MUTEX sender has credit has its acquire transmitted by the
\* call itself, whatever the FETCH queue and FETCH credit of the endpoint are,
\* and the call changes no FETCH queue, credit or transmission.
C14_HeadOfLineIsolation ==
    [][\A e \in Endpoints :
          (/\ next_cid \in Cids
           /\ call[next_cid].kind = "none"
           /\ call'[next_cid].kind = "cs" /\ call'[next_cid].ep = e
           /\ reply_to /\ credit[e][LINK_CLASS_MUTEX] > 0)
          => /\ wire'[e][LINK_CLASS_MUTEX]
                   = Append(wire[e][LINK_CLASS_MUTEX], next_cid)
             /\ cdel'[next_cid].sent
             /\ \A x \in Endpoints :
                   /\ outgoing'[x][LINK_CLASS_FETCH] = outgoing[x][LINK_CLASS_FETCH]
                   /\ credit'[x][LINK_CLASS_FETCH] = credit[x][LINK_CLASS_FETCH]
                   /\ wire'[x][LINK_CLASS_FETCH] = wire[x][LINK_CLASS_FETCH]]_vars

\* Two fetches are stalled on an endpoint whose FETCH sender has no credit, and
\* a critical_section issued after them was transmitted by its own call.
C14_Witness ==
    \E e \in Endpoints, c \in Cids :
        /\ Len(outgoing[e][LINK_CLASS_FETCH]) = 2
        /\ credit[e][LINK_CLASS_FETCH] = 0
        /\ call[c].kind = "cs" /\ call[c].ep = e
        /\ \A f \in SeqToSet(outgoing[e][LINK_CLASS_FETCH]) : f < c
        /\ c \in hist.isolated
        /\ c \in SeqToSet(wire[e][LINK_CLASS_MUTEX])

C16_DeferredDrain ==
    reply_to => \A e \in Endpoints, l \in LinkClasses :
                    outgoing[e][l] = << >> \/ credit[e][l] = 0

\* Requests of both link classes, on two endpoints, were queued before the
\* reply address was known and have all been transmitted; credit is left over.
C16_Witness ==
    /\ reply_to
    /\ hist.isolated = {}
    /\ Cardinality(IssuedCalls) = MaxCalls
    /\ \A c \in IssuedCalls : cdel[c].sent
    /\ \E c1, c2 \in IssuedCalls : call[c1].ep # call[c2].ep
    /\ \E c1, c2 \in IssuedCalls : call[c1].kind # call[c2].kind
    /\ \E e \in Endpoints, l \in LinkClasses : wire[e][l] # << >> /\ credit[e][l] > 0


\* ------------------------------------------------------ server dispatch
NotBlank(element) == element # Blank

\* The non-empty segments of a path text.
NonEmptySegments(els) == SelectSeq(els, NotBlank)

\* The non-empty segments of the routes registered so far.
RegisteredSegments == { NonEmptySegments(r) : r \in hist.routes }

\* A request has just been dispatched by the server.
Dispatched == served' # served

\* C17: PathNotFound.  A request whose path is not that of a registered route,
\* whatever its op, gets exactly one reply, 404 with body "No resource found at
\* path"; its delivery is accepted and settled and no handler is invoked.
C17_PathNotFound ==
    (served.cid # 0 /\ NonEmptySegments(served.path) \notin RegisteredSegments)
        => /\ served.sent = << Reply(404, "Not Found", "No resource found at path") >>
           /\ served.state = STATE_ACCEPTED
           /\ served.settled
           /\ served.invoked = 0

\* The node has no handler registered for the op.
HasNoHandler(nd, op) ==
    ToLowerCase(op) \notin Verbs \/ nd.handlers[ToLowerCase(op)] = << >>

\* C18: MethodNotPermitted.  A request whose path resolves to a node, whose op
\* is not acquire and has no handler registered on that node, gets exactly one
\* 400 "Not Permitted" reply, and its delivery is accepted and settled.
C18_MethodNotPermitted ==
    [][(/\ Dispatched
        /\ served'.node \in NodeIds
        /\ ToLowerCase(served'.op) # "acquire"
        /\ HasNoHandler(nodes[served'.node], served'.op))
          => /\ served'.sent =
                   << Reply(400, "Not Permitted", "Method not permitted for this resource") >>
             /\ served'.state = STATE_ACCEPTED
             /\ served'.settled]_vars

\* C19: DispatchError containment.  When dispatching a request throws, its
\* delivery is rejected and settled, and the routes, the nodes, the mutex
\* queues, the other requests' deliveries and replies are left as they were,
\* so that what a later request meets is what it would have met without the
\* failure.
C19_DispatchErrorContainment ==
    [][(Dispatched /\ served'.threw)
          => /\ served'.state = "rejected"
             /\ served'.settled
             /\ UNCHANGED << path_tree, nodes, queue, sdel, counter, replies,
                             disp_s2c, hist >>]_vars

\* A request on a node with a handler that responds and one that throws was
\* rejected while a mutex of the server was held.
C19_Witness ==
    /\ served.threw
    /\ served.state = "rejected"
    /\ served.invoked = 2
    /\ served.sent # << >>
    /\ queue[ClientMutex] # << >>

\* C20: exact-match lookup.  A request path resolves to a node if and only if
\* its non-empty segments are those of a registered route.
C20_ExactMatchLookup ==
    [][Dispatched =>
          ((served'.node \in NodeIds)
              <=> (NonEmptySegments(served'.path) \in RegisteredSegments))]_vars

\* ------------------------------------------------------------ path tree
\* new Path(): the tree of a server endpoint on which no route is registered.
EmptyPathTree == [pos \in Positions |-> IF pos = << >> THEN NoNode ELSE Absent]

\* The tree after route(second) and then route(first), each route with the
\* node it has in the order the server registered them (first: 1, second: 2).
OtherOrder(first, second) ==
    Insert(Insert(EmptyPathTree, << >>, 2, second).tree, << >>, 1, first).tree

\* Every request path has the same lookup outcome on both trees.
SameLookups(t1, t2) == \A q \in PathTexts : Resolve(t1, q) = Resolve(t2, q)

\* C21 as stated: two different routes registered in either order give the
\* same lookup outcome for every request path.
C21_AnyTwoRoutes ==
    (Len(hist.routed) = 2 /\ hist.routed[1] # hist.routed[2])
        => SameLookups(path_tree, OtherOrder(hist.routed[1], hist.routed[2]))

\* C21: path lookup order-independence.  Two routes whose non-empty segments
\* differ give, registered in either order, the same lookup outcome for every
\* request path.
C21_OrderIndependence ==
    (/\ Len(hist.routed) = 2
     /\ NonEmptySegments(hist.routed[1]) # NonEmptySegments(hist.routed[2]))
        => SameLookups(path_tree, OtherOrder(hist.routed[1], hist.routed[2]))

\* A route was registered after one that lies below it.
C21_Witness ==
    /\ Len(hist.routed) = 2
    /\ NonEmptySegments(hist.routed[1]) # NonEmptySegments(hist.routed[2])
    /\ NonEmptySegments(hist.routed[1]) \in Positions
    /\ IsPrefix(NonEmptySegments(hist.routed[2]), NonEmptySegments(hist.routed[1]))
    /\ path_tree[NonEmptySegments(hist.routed[1])] = 1
    /\ path_tree[NonEmptySegments(hist.routed[2])] = 2

\* Two path texts that differ only in empty segments.
SameSegments(p, q) == NonEmptySegments(p) = NonEmptySegments(q)

\* C22: empty segments are ignored.  Two path texts that differ only in empty
\* segments, the empty text and "/" included, register a node at the same
\* place and resolve to the same node.
C22_EmptySegmentsIgnored ==
    \A p \in PathTexts, q \in PathTexts :
        SameSegments(p, q)
            => /\ Insert(path_tree, << >>, 1, p) = Insert(path_tree, << >>, 1, q)
               /\ Resolve(path_tree, p) = Resolve(path_tree, q)

\* ---------------------------------------------------------------- Response
\* C23: a Response is one-shot.  Once send() or end() has emitted the reply,
\* a later status(), send() or end() on that Response fails with an error,
\* emits nothing and changes neither the status nor the body that were sent;
\* a Response emits at most one reply.
C23_ResponseOneShot ==
    [][\A i \in 1..MaxResponses :
          /\ Len(responses'[i].emitted) <= 1
          /\ responses[i].sent
               => /\ responses'[i].sent
                  /\ responses'[i].emitted = responses[i].emitted
                  /\ responses'[i].status = responses[i].status
                  /\ responses'[i].body = responses[i].body
                  /\ responses'[i] # responses[i] => responses'[i].error # "none"]_vars

\* A sent Response was used again and failed, next to one that is still unsent.
C23_Witness ==
    \E i \in 1..MaxResponses, j \in 1..MaxResponses :
        /\ responses[i].sent
        /\ responses[i].error = "Sending on an already sent response"
        /\ Len(responses[i].emitted) = 1
        /\ responses[j].created /\ ~responses[j].sent

\* --------------------------------------------------------------- endpoints
\* The address with a leading "/" added if it has none.
WithLeadingSlash(a) == IF a = << >> \/ a[1] # "/" THEN << "/" >> \o a ELSE a

\* The endpoints of a class a connection has.
EndpointsOf(reg, class) ==
    IF class = "server" THEN reg.server_endpoints ELSE reg.client_endpoints

\* C24: DuplicateEndpoint.  A call of server_endpoint (client_endpoint) with
\* an address that, with a leading "/" added if missing, is that of a server
\* (client) endpoint of the connection throws and leaves both registries as
\* they were; any other call returns and registers the address in its class
\* only, so a server and a client endpoint may share an address.
C24_DuplicateEndpoint ==
    [][registry' # registry =>
         LET class == registry'.last.class
             other == IF class = "server" THEN "client" ELSE "server"
             address == WithLeadingSlash(registry'.last.address)
             duplicate == \E b \in EndpointsOf(registry, class) :
                              WithLeadingSlash(b) = address
         IN  /\ EndpointsOf(registry', other) = EndpointsOf(registry, other)
             /\ IF duplicate
                THEN /\ registry'.last.threw
                     /\ EndpointsOf(registry', class) = EndpointsOf(registry, class)
                ELSE /\ ~registry'.last.threw
                     /\ EndpointsOf(registry', class) =
                            EndpointsOf(registry, class) \cup {address}]_vars

\* A second server endpoint on "x" was refused while "/x" has a server and a
\* client endpoint.
C24_Witness ==
    /\ registry.last = [class |-> "server", address |-> << "x" >>, threw |-> TRUE]
    /\ << "/", "x" >> \in registry.server_endpoints
    /\ << "/", "x" >> \in registry.client_endpoints

\* ------------------------------------------------------- critical sections
\* The critical_section calls that their timeout timer rejected.
TimedOut == { c \in IssuedCalls : call[c].kind = "cs" /\ promise[c].state = "timeout" }

\* C25: a timed-out critical section did not run.  For a critical_section call
\* rejected by its timeout timer, inner was not invoked before the rejection
\* and is not invoked after it, whatever reply arrives later.
C25_TimedOutDidNotRun ==
    \A c \in TimedOut : inner[c].pc = "idle" /\ hist.invoked[c] = 0

\* The server granted the mutex to a call that its timer rejected, and the 200
\* reply reached the client after the rejection.
C25_Witness ==
    \E c \in TimedOut :
        /\ c \in SeqToSet(hist.granted[call[c].mutex])
        /\ \A r \in replies : r.cid # c

\* C26 as stated: the timer of a call with timeout > 0 is still armed, or
\* fires, while inner is executing.
C26_WholeOperation ==
    \A c \in IssuedCalls :
        (call[c].kind = "cs" /\ InnerRunning(c) /\ timer[c] # "none")
            => timer[c] \in {"armed", "fired"}

\* C26: timeout scope of critical_section.  With timeout > 0 the timer covers
\* the acquisition only: from the moment the reply is handled it is cleared and
\* never fires.  With timeout = 0 no timer is ever armed and the call is never
\* rejected by timeout.
C26_TimeoutScope ==
    [][\A c \in Cids :
          call'[c].kind = "cs"
            => /\ hist'.invoked[c] > 0 => timer'[c] \in {"none", "cleared"}
               /\ (call[c].kind = "cs" /\ timer[c] = "none")
                     => timer'[c] = "none" /\ promise'[c].state # "timeout"]_vars

\* inner is executing for a call whose timer was armed, and for one without.
C26_Witness ==
    /\ \E c \in IssuedCalls : InnerRunning(c) /\ timer[c] = "cleared"
    /\ \E c \in IssuedCalls : InnerRunning(c) /\ timer[c] = "none"

\* The disposition d reaches the client and the hook of its call, run for the
\* event of d's state, finds the delivery remote-settled and not locally
\* settled.
HookObserves(d) ==
    /\ d \in disp_s2c /\ d \notin disp_s2c'
    /\ call[d.cid].kind = "cs"
    /\ ~cdel[d.cid].remote_settled
    /\ d.settled
    /\ d.state # "none"
    /\ ~cdel[d.cid].settled
    /\ ~(d.state = STATE_ACCEPTED /\ hookst[d.cid].inner_completed)

\* C27: MutexDropped.  When the disposition hook of an acquire finds the
\* delivery remote-settled and not locally settled, the client marks it locally
\* settled, invokes on_cancel once and rejects the call with 'Mutex was dropped
\* prematurely' (a call rejected before stays as it was), also while inner is
\* executing; on_cancel is invoked at most once per call.
C27_MutexDropped ==
    [][\A c \in Cids :
          /\ hist'.cancels[c] <= 1
          /\ \A d \in disp_s2c :
                (d.cid = c /\ HookObserves(d))
                   => /\ cdel'[c].settled
                      /\ hist'.cancels[c] = hist.cancels[c] + 1
                      /\ promise'[c] = Settle(promise[c], "dropped", NoValue)
                      /\ promise'[c].state # "pending"]_vars

\* The call was rejected as dropped, and on_cancel invoked, while its inner
\* is executing.
C27_Witness ==
    \E c \in IssuedCalls :
        /\ InnerRunning(c)
        /\ promise[c].state = "dropped"
        /\ hist.cancels[c] = 1
        /\ cdel[c].settled

\* The critical_section calls whose completion was invoked with a reply of a
\* status other than 200.
RefusedCalls ==
    { c \in IssuedCalls : /\ call[c].kind = "cs"
                          /\ hist.invoked[c] > 0
                          /\ hist.reply_of[c].status # 200 }

\* C28: MutexError.  When the reply to an acquire carries a status other than
\* 200, the critical_section call is rejected with 'Mutex error: (status)
\* status_description', inner is never invoked and the timer is cancelled.
C28_MutexError ==
    \A c \in RefusedCalls :
        /\ promise[c].state = "error"
        /\ promise[c].value.status = hist.reply_of[c].status
        /\ inner[c].pc = "idle"
        /\ timer[c] # "armed"

\* C29: fresh acquisition_id per grant.  Over the lifetime of a server
\* endpoint no two 200 grant replies, for the same or for different mutex
\* names, carry the same acquisition_id.
C29_FreshAcquisitionId ==
    \A i, j \in 1..Len(hist.acquisitions) :
        i # j => hist.acquisitions[i] # hist.acquisitions[j]

\* Request c waits in the queue of its mutex behind the head.
NonHead(c) ==
    \E i \in 2..Len(queue[call[c].mutex]) : queue[call[c].mutex][i] = c

\* Queue q without the entry of request c.
Without(q, c) == SelectSeq(q, LAMBDA x : x # c)

\* C30: waiter wait_time expiry.  When the wait timer of an acquire that is
\* still a non-head entry of the queue fires, the server replies to that
\* waiter with a timeout status, settles its delivery and removes its entry
\* from the queue, leaving the order of the other entries unchanged.
C30_WaitTimeExpiry ==
    [][\A c \in Cids :
          (sdel[c].timer = "armed" /\ sdel'[c].timer = "fired" /\ NonHead(c))
            => /\ queue'[call[c].mutex] = Without(queue[call[c].mutex], c)
               /\ sdel'[c].settled
               /\ \E r \in replies' \ replies : r.cid = c /\ r.status # 200]_vars

\* C31: the head is the granted one.  In every state the head entry of a
\* non-empty MutexInstance queue has had its delivery accepted and its 200
\* reply sent, and no entry behind the head has been accepted or sent a 200
\* reply; an acquire that arrives at an empty queue is the head from its own
\* dispatch on.
C31_HeadIsGranted ==
    \A m \in MutexNames :
        /\ queue[m] # << >>
             => /\ sdel[queue[m][1]].accepted
                /\ queue[m][1] \in SeqToSet(hist.granted[m])
        /\ \A i \in 2..Len(queue[m]) :
              /\ ~sdel[queue[m][i]].accepted
              /\ queue[m][i] \notin SeqToSet(hist.granted[m])

\* A waiter was promoted to head by a release and holds the grant while the
\* request behind it has not been accepted.
C31_Witness ==
    \E m \in MutexNames :
        /\ Len(queue[m]) = 2
        /\ Len(hist.arrived[m]) = 3
        /\ queue[m][1] = hist.arrived[m][2]
        /\ sdel[queue[m][1]].accepted
        /\ ~sdel[queue[m][2]].accepted

\* C32: the head has no armed wait timer.  In every reachable state the entry
\* at the head of a MutexInstance queue has no pending wait timer, whether it
\* arrived at an empty queue or was promoted to head by a release.
C32_HeadHasNoTimer ==
    \A m \in MutexNames :
        queue[m] # << >> => sdel[queue[m][1]].timer # "armed"

\* C33: the correlator tables agree.  In every state between event-loop turns
\* the cids of APIConnection.in_flight are the cids of the in_flight tables of
\* the connection's client endpoints, and each cid maps to the endpoint that
\* holds it.
C33_CorrelatorTablesAgree ==
    \A c \in Cids, e \in Endpoints :
        conn_in_flight[c] = e <=> c \in ep_in_flight[e]

\* One call is registered in both tables for the second endpoint while an
\* earlier call, settled by its reply or its timer, is in neither.
C33_Witness ==
    \E c1, c2 \in IssuedCalls :
        /\ conn_in_flight[c1] = "e2"
        /\ c1 \in ep_in_flight["e2"]
        /\ conn_in_flight[c2] = NoEndpoint
        /\ promise[c2].state \in {"resolved", "error", "timeout"}

\* C34: at most one reply per request.  For every request a ServerEndpoint
\* receives, the server emits at most one reply bearing the request's
\* correlation_id, however many handlers are registered for the verb on the
\* resolved node.
C34_AtMostOneReply == Len(served.sent) <= 1

\* C35: a timeout leaves the outbox unchanged.  The step in which the timer of
\* a fetch or of a critical_section fires changes no OutboxQueue and transmits
\* nothing, and in every step a request that leaves an OutboxQueue is handed
\* to the sender of its link in that step.
C35_TimeoutLeavesOutbox ==
    [][/\ \A c \in Cids :
             (timer[c] = "armed" /\ timer'[c] = "fired")
                => UNCHANGED << outgoing, wire >>
       /\ \A e \in Endpoints, l \in LinkClasses :
             \A c \in SeqToSet(outgoing[e][l]) \ SeqToSet(outgoing'[e][l]) :
                /\ c \in SeqToSet(wire'[e][l]) \ SeqToSet(wire[e][l])
                /\ cdel'[c].sent]_vars

\* The timer of a call fired while its request was waiting in its
\* OutboxQueue: the call is rejected and the request is still queued.
C35_Witness ==
    \E c \in IssuedCalls :
        /\ promise[c].state = "timeout"
        /\ conn_in_flight[c] = NoEndpoint
        /\ \E e \in Endpoints, l \in LinkClasses : c \in SeqToSet(outgoing[e][l])

\* The queue of the MutexInstance of name m; a name without one has no entry.
QueueOfName(m) == IF m \in MutexNames THEN queue[m] ELSE << >>

\* C36: mutex names are independent.  An acquire of name M1 that reaches a
\* mutex set leaves the queue of every other name unchanged, and when no
\* entry of M1 is queued it is granted within its dispatch, whatever other
\* names are held.
C36_IndependentNames ==
    [][\A m \in RequestMutexNames :
          (/\ served' # served
           /\ served'.mutex_name = m
           /\ served'.node \in NodeIds
           /\ nodes[served'.node].mutex)
            => /\ \A m2 \in MutexNames \ {m} : queue'[m2] = queue[m2]
               /\ QueueOfName(m) = << >>
                    => /\ served'.sent = << Reply(200, "Ok", "") >>
                       /\ served'.state = STATE_ACCEPTED]_vars

\* The critical_section calls whose inner completed and whose delivery the
\* client settled itself, on_cancel not having been invoked.
NormallyReleased ==
    { c \in Cids : /\ call[c].kind = "cs"
                   /\ hookst[c].inner_completed
                   /\ cdel[c].settled
                   /\ hist.cancels[c] = 0 }

\* C37: no spurious cancel.  For a critical_section call whose inner completed
\* and whose acquire delivery the client settled itself, no later step invokes
\* on_cancel or rejects the call with 'Mutex was dropped prematurely',
\* whatever disposition is delivered.
C37_NoSpuriousCancel ==
    [][\A c \in NormallyReleased :
          /\ hist'.cancels[c] = 0
          /\ promise'[c].state # "dropped"]_vars

\* After the normal release of a call the peer's settlement of its delivery
\* reached the client, and the call stands resolved.
C37_Witness ==
    \E c \in NormallyReleased :
        /\ cdel[c].remote_settled
        /\ promise[c].state = "resolved"

\* C38: no critical section after a drop.  Once on_cancel has been invoked and
\* the call rejected as dropped before its inner was started, inner is never
\* started for that call, even if a 200 reply bearing its cid arrives later.
C38_NoInnerAfterDrop ==
    [][\A c \in Cids :
          (/\ hist.cancels[c] > 0
           /\ promise[c].state = "dropped"
           /\ inner[c].pc = "idle")
            => inner'[c].pc = "idle"]_vars

\* C39: each acquire is granted and popped at most once.  A step that removes
\* an entry from a queue removes the head, in the step in which the release
\* hook of the head's own delivery fires (the delivery, granted and settled by
\* the peer, becomes locally settled, so its hook cannot fire again); every
\* other change of a queue appends an arrival; and no acquire is sent the 200
\* reply twice.
C39_GrantedAndPoppedOnce ==
    [][\A m \in MutexNames :
          /\ queue'[m] # queue[m]
               => \/ \E c \in Cids : /\ c \notin SeqToSet(queue[m])
                                     /\ queue'[m] = Append(queue[m], c)
                  \/ /\ queue[m] # << >>
                     /\ queue'[m] = Tail(queue[m])
                     /\ queue[m][1] \in SeqToSet(hist.granted[m])
                     /\ sdel[queue[m][1]].hook
                     /\ ~sdel[queue[m][1]].settled
                     /\ sdel'[queue[m][1]].settled
                     /\ sdel'[queue[m][1]].remote_settled
          /\ \A i, j \in 1..Len(hist'.granted[m]) :
                i # j => hist'.granted[m][i] # hist'.granted[m][j]]_vars

\* Two acquires of one mutex were granted and popped one after the other, each
\* by the release hook of its own delivery.
C39_Witness ==
    \E m \in MutexNames :
        /\ Len(hist.granted[m]) = 2
        /\ queue[m] = << >>
        /\ \A i \in 1..2 : sdel[hist.granted[m][i]].settled

====
